---- MODULE Spec2Model ----
(***************************************************************************)
(* OutlastClient (utils/create_record.py): a client that exchanges an      *)
(* access key pair for a bearer token and issues tRPC calls.  The model    *)
(* follows each call of a thread through its blocking points (the two      *)
(* requests.post calls) and through the reads and the write of             *)
(* self.access_token.                                                      *)
(***************************************************************************)
EXTENDS Integers, Sequences, FiniteSets, TLC

\* ------------------------------------------------------------------ bounds
\* Calls started over the lifetime of the client.
MaxCalls == 2

\* ------------------------------------------------------------------ values
\* Python's None.
None == "None"

\* Threads that may call into the one client instance.
Threads == {1, 2}

\* Values a caller passes for a credential: absent, empty, or a real key.
KeyIds == {None, "", "key-id"}
KeySecrets == {None, "", "key-secret"}

\* accessToken values the server may put in a token-exchange response.
Tokens == {"", "t1", "t2"}

\* Response status codes: success, a non-2xx that is no error for
\* raise_for_status, a client error, and a code past the 5xx range.
Statuses == {200, 304, 401, 600}

\* Python truthiness of the values of the model (None, "", {}, [], False).
Falsy(v) == v \in {None, "", "{}", "[]", "False"}

Ops == {"authenticate", "create_record", "schedule_workflow_run",
        "get_workflow_run", "list_workflow_runs"}

AuthenticatedOps == Ops \ {"authenticate"}

AuthProcedure == "identity.auth.exchangeApiKey"

\* The tRPC procedure each operation posts to.
Procedure(o) ==
    CASE o = "authenticate" -> AuthProcedure
      [] o = "create_record" -> "createRecord"
      [] o = "schedule_workflow_run" -> "scheduleWorkflowRun"
      [] o = "get_workflow_run" -> "getWorkflowRun"
      [] o = "list_workflow_runs" -> "listWorkflowRuns"

\* A response: its status and its body, which is either a well-formed
\* envelope {"result": {"data": data}} or something else (json = FALSE).
AuthResponses ==
    [status : Statuses, json : {TRUE}, data : Tokens]
        \cup [status : Statuses, json : {FALSE}, data : {None}]

OpResponses ==
    [status : Statuses, json : {TRUE}, data : {"payload"}]
        \cup [status : Statuses, json : {FALSE}, data : {None}]

\* Outcome of a call: a returned value or a raised exception.
Returned(v) == [kind |-> "return", val |-> v]
Raised(exc, msg) == [kind |-> exc, val |-> msg]
NoResult == [kind |-> "pending", val |-> None]

VARIABLES
    access_key_id,      \* self.access_key_id
    access_key_secret,  \* self.access_key_secret
    access_token,       \* self.access_token
    pc,                 \* per thread: position in the current call
    op,                 \* per thread: the operation being called
    seen,               \* per thread: self.access_token as read on entry
    reqs,               \* per thread: requests posted during the call
    resps,              \* per thread: responses received during the call
    writes,             \* per thread: assignments to self.access_token in the call
    result,             \* per thread: outcome of the call
    ncalls,             \* calls started so far
    implicitAuths,      \* token-exchange requests posted by lazy authentication
    implicitStores,     \* lazy authentications that stored a non-empty token
    explicitUsed,       \* the caller has called authenticate() itself
    everCleared,        \* the caller has reset access_token to None
    lastStored,         \* token stored by the most recent successful authenticate
    overlap,            \* a call was started while another was in progress
    given,              \* create_record: the optional arguments the caller passed
    args,               \* create_record: the bound arguments
    payload             \* create_record: the request body built

clientVars == <<access_key_id, access_key_secret, access_token>>
callVars == <<pc, op, seen, reqs, resps, writes, result>>
histVars == <<ncalls, implicitAuths, implicitStores, explicitUsed, everCleared,
              lastStored, overlap>>
payloadVars == <<given, args, payload>>
vars == <<clientVars, callVars, histVars, payloadVars>>


\* ------------------------------------------------- create_record arguments
RequiredParams == {"title", "source_system", "source_record_id"}
DefaultedParams == {"record_type", "status"}
OptionalParams == {"priority", "risk", "contact_id", "due_at", "metadata",
                   "raw_data", "workflow_ids", "allow_overwrite",
                   "overwrite_fields"}
Params == RequiredParams \cup DefaultedParams \cup OptionalParams

\* The value a parameter is bound to when the caller does not pass it.
DefaultValue(p) ==
    CASE p = "record_type" -> "GENERIC"
      [] p = "status" -> "OPEN"
      [] p = "allow_overwrite" -> "False"
      [] p = "title" -> "T"
      [] p = "source_system" -> "S"
      [] p = "source_record_id" -> "R"
      [] OTHER -> None

\* An empty value of the parameter's type, passed on purpose by the caller.
EmptyValue(p) ==
    CASE p \in {"metadata", "raw_data"} -> "{}"
      [] p \in {"workflow_ids", "overwrite_fields"} -> "[]"
      [] p = "allow_overwrite" -> "False"
      [] OTHER -> ""

\* A non-empty value of the parameter's type.
SampleValue(p) ==
    CASE p = "record_type" -> "INVOICE"
      [] p = "status" -> "BLOCKED"
      [] p = "priority" -> "HIGH"
      [] p = "risk" -> "CRITICAL"
      [] p = "contact_id" -> "contact-uuid"
      [] p = "due_at" -> "2026-02-15T00:00:00Z"
      [] p = "metadata" -> "{amount: 5000}"
      [] p = "raw_data" -> "{raw: 1}"
      [] p = "workflow_ids" -> "[workflow-uuid-1]"
      [] p = "allow_overwrite" -> "True"
      [] p = "overwrite_fields" -> "[status]"
      [] OTHER -> DefaultValue(p)

\* How the caller may pass each parameter it is free to leave out.
PassModes ==
    [OptionalParams \cup DefaultedParams -> {"unset", "empty", "value"}]

\* The arguments as Python binds them for a call made with those modes.
BindArgs(mode) ==
    [p \in Params |->
        IF p \in RequiredParams \/ mode[p] = "unset" THEN DefaultValue(p)
        ELSE IF mode[p] = "empty" THEN EmptyValue(p)
        ELSE SampleValue(p)]

\* Wire (camelCase) name of each parameter.
WireName(p) ==
    CASE p = "title" -> "title"
      [] p = "record_type" -> "type"
      [] p = "source_system" -> "sourceSystem"
      [] p = "source_record_id" -> "sourceRecordId"
      [] p = "status" -> "status"
      [] p = "priority" -> "priority"
      [] p = "risk" -> "risk"
      [] p = "contact_id" -> "contactId"
      [] p = "due_at" -> "dueAt"
      [] p = "metadata" -> "metadata"
      [] p = "raw_data" -> "rawData"
      [] p = "workflow_ids" -> "workflowIds"
      [] p = "allow_overwrite" -> "allowOverwrite"
      [] p = "overwrite_fields" -> "overwriteFields"

ParamOf(k) == CHOOSE p \in Params : WireName(p) = k

\* Faulty variant: every optional key is always written, None included.
BuildPayloadAllKeys(a) ==
    [k \in {WireName(p) : p \in Params} |-> a[ParamOf(k)]]

\* The request body of create_record: the five fixed keys, then each
\* optional key whose argument is truthy.
BuildPayload(a) ==
    [k \in {WireName(p) : p \in RequiredParams \cup DefaultedParams}
           \cup {WireName(p) : p \in {q \in OptionalParams : ~Falsy(a[q])}}
        |-> a[ParamOf(k)]]

NoPayload == << >>

\* ---------------------------------------------------------------- helpers
\* Faulty variants of the token test: authenticate on every call, or never.
NeedsAuthAlways(tok) == TRUE
NeedsAuthNever(tok) == FALSE

\* `if not self.access_token`
NeedsAuth(tok) == Falsy(tok)

\* Faulty variant: only the key id is checked.
CredentialsMissingIdOnly(id, secret) == Falsy(id)

\* `if not self.access_key_id or not self.access_key_secret`
CredentialsMissing(id, secret) == Falsy(id) \/ Falsy(secret)

\* `if response.status_code >= 400` in authenticate
AuthFailed(status) == status >= 400

\* response.raise_for_status(): raises for 4xx and 5xx only.
RaiseForStatus(status) == 400 <= status /\ status < 600

\* Faulty variant: every operation wraps the transport error.
WrapsErrorAll(o) == TRUE

\* create_record and schedule_workflow_run catch the HTTPError and raise a
\* new one with their own message; get and list let it through.
WrapsError(o) == o \in {"create_record", "schedule_workflow_run"}

ErrorPrefix(o) ==
    IF o = "create_record" THEN "Create record failed"
    ELSE "Schedule workflow run failed"

\* Message of the HTTPError raise_for_status builds itself.
TransportMessage == "Client or Server Error for url"

\* f"Bearer {self.access_token}"
Bearer(tok) == "Bearer " \o tok

AuthRequest ==
    [proc |-> AuthProcedure, authorization |-> None, key_id |-> None]

\* The operation's own POST, with the headers every authenticated call sends.
OpRequest(t) ==
    [proc |-> Procedure(op[t]), authorization |-> Bearer(access_token),
     key_id |-> access_key_id]

Idle(t) == pc[t] \in {"idle", "done"}


\* ------------------------------------------------------------------- Init
\* __init__: credentials as given, no token, no network activity.
InitClient ==
    /\ access_key_id \in KeyIds
    /\ access_key_secret \in KeySecrets
    /\ access_token = None
    /\ pc = [t \in Threads |-> "idle"]
    /\ op = [t \in Threads |-> "authenticate"]
    /\ seen = [t \in Threads |-> None]
    /\ reqs = [t \in Threads |-> << >>]
    /\ resps = [t \in Threads |-> << >>]
    /\ writes = [t \in Threads |-> 0]
    /\ result = [t \in Threads |-> NoResult]
    /\ ncalls = 0
    /\ implicitAuths = 0
    /\ implicitStores = 0
    /\ explicitUsed = FALSE
    /\ everCleared = FALSE
    /\ lastStored = None
    /\ overlap = FALSE

\* create_record is called with the three required arguments only.
Init ==
    /\ InitClient
    /\ given = {}
    /\ args = [p \in Params |-> DefaultValue(p)]
    /\ payload = NoPayload

\* ---------------------------------------------------------------- actions
\* Thread t enters operation o: the per-call bookkeeping starts afresh.
BeginCall(t, o) ==
    /\ Idle(t)
    /\ ncalls < MaxCalls
    /\ op' = [op EXCEPT ![t] = o]
    /\ seen' = [seen EXCEPT ![t] = access_token]
    /\ resps' = [resps EXCEPT ![t] = << >>]
    /\ writes' = [writes EXCEPT ![t] = 0]
    /\ ncalls' = ncalls + 1
    /\ overlap' = (overlap \/ \E u \in Threads \ {t} : ~Idle(u))

\* authenticate(), up to the POST: the credentials check, then the request.
EnterAuthenticate(t, implicit) ==
    IF CredentialsMissing(access_key_id, access_key_secret)
    THEN /\ pc' = [pc EXCEPT ![t] = "done"]
         /\ result' = [result EXCEPT ![t] =
                Raised("ValueError",
                       "access_key_id and access_key_secret are required")]
         /\ reqs' = [reqs EXCEPT ![t] = << >>]
         /\ UNCHANGED implicitAuths
    ELSE /\ pc' = [pc EXCEPT ![t] = "auth_wait"]
         /\ result' = [result EXCEPT ![t] = NoResult]
         /\ reqs' = [reqs EXCEPT ![t] = <<AuthRequest>>]
         /\ implicitAuths' = IF implicit THEN implicitAuths + 1
                             ELSE implicitAuths

\* The caller calls authenticate() itself.
authenticate(t) ==
    /\ BeginCall(t, "authenticate")
    /\ EnterAuthenticate(t, FALSE)
    /\ explicitUsed' = TRUE
    /\ UNCHANGED <<clientVars, implicitStores, everCleared, lastStored,
                   payloadVars>>

\* The first two lines of every authenticated operation:
\*     if not self.access_token: self.authenticate()
AuthenticatedCall(t, o) ==
    /\ BeginCall(t, o)
    /\ IF NeedsAuth(access_token)
       THEN EnterAuthenticate(t, TRUE)
       ELSE /\ pc' = [pc EXCEPT ![t] = "send"]
            /\ result' = [result EXCEPT ![t] = NoResult]
            /\ reqs' = [reqs EXCEPT ![t] = << >>]
            /\ UNCHANGED implicitAuths
    /\ UNCHANGED <<clientVars, implicitStores, explicitUsed, everCleared,
                   lastStored, payloadVars>>

create_record(t) == AuthenticatedCall(t, "create_record")

schedule_workflow_run(t) == AuthenticatedCall(t, "schedule_workflow_run")

get_workflow_run(t) == AuthenticatedCall(t, "get_workflow_run")

list_workflow_runs(t) == AuthenticatedCall(t, "list_workflow_runs")

\* Faulty variant: a failed token exchange is ignored and the call goes on.
AuthenticateResponseIgnoreFailure(t) ==
    /\ pc[t] = "auth_wait"
    /\ \E r \in AuthResponses :
        /\ resps' = [resps EXCEPT ![t] = Append(@, r)]
        /\ pc' = [pc EXCEPT ![t] =
                IF op[t] = "authenticate" THEN "auth_return" ELSE "send"]
        /\ IF AuthFailed(r.status) \/ ~r.json
           THEN UNCHANGED <<access_token, writes, lastStored, implicitStores>>
           ELSE /\ access_token' = r.data
                /\ writes' = [writes EXCEPT ![t] = @ + 1]
                /\ lastStored' = r.data
                /\ implicitStores' =
                     IF op[t] # "authenticate" /\ ~Falsy(r.data)
                     THEN implicitStores + 1 ELSE implicitStores
    /\ UNCHANGED <<access_key_id, access_key_secret, op, seen, reqs, result,
                   ncalls, implicitAuths, explicitUsed, everCleared, overlap,
                   payloadVars>>

\* Faulty variant: the token is stored only when none is held yet.
AuthenticateResponseKeepOld(t) ==
    /\ pc[t] = "auth_wait"
    /\ \E r \in AuthResponses :
        /\ resps' = [resps EXCEPT ![t] = Append(@, r)]
        /\ IF AuthFailed(r.status) \/ ~r.json
           THEN /\ pc' = [pc EXCEPT ![t] = "done"]
                /\ result' = [result EXCEPT ![t] =
                       Raised("HTTPError", "Authentication failed")]
                /\ UNCHANGED <<access_token, writes, lastStored,
                               implicitStores>>
           ELSE /\ access_token' =
                     IF Falsy(access_token) THEN r.data ELSE access_token
                /\ writes' = [writes EXCEPT ![t] = @ + 1]
                /\ lastStored' = r.data
                /\ implicitStores' =
                     IF op[t] # "authenticate" /\ ~Falsy(r.data)
                     THEN implicitStores + 1 ELSE implicitStores
                /\ pc' = [pc EXCEPT ![t] =
                       IF op[t] = "authenticate" THEN "auth_return"
                       ELSE "send"]
                /\ UNCHANGED result
    /\ UNCHANGED <<access_key_id, access_key_secret, op, seen, reqs,
                   ncalls, implicitAuths, explicitUsed, everCleared, overlap,
                   payloadVars>>

\* authenticate(), from the response on: the status check, raise_for_status,
\* the envelope, the assignment to self.access_token.
AuthenticateResponse(t) ==
    /\ pc[t] = "auth_wait"
    /\ \E r \in AuthResponses :
        /\ resps' = [resps EXCEPT ![t] = Append(@, r)]
        /\ IF AuthFailed(r.status)
           THEN /\ pc' = [pc EXCEPT ![t] = "done"]
                /\ result' = [result EXCEPT ![t] =
                       Raised("HTTPError", "Authentication failed")]
                /\ UNCHANGED <<access_token, writes, lastStored,
                               implicitStores>>
           ELSE IF RaiseForStatus(r.status)
           THEN /\ pc' = [pc EXCEPT ![t] = "done"]
                /\ result' = [result EXCEPT ![t] =
                       Raised("HTTPError", TransportMessage)]
                /\ UNCHANGED <<access_token, writes, lastStored,
                               implicitStores>>
           ELSE IF ~r.json
           THEN /\ pc' = [pc EXCEPT ![t] = "done"]
                /\ result' = [result EXCEPT ![t] =
                       Raised("DecodeError", "no result.data.accessToken")]
                /\ UNCHANGED <<access_token, writes, lastStored,
                               implicitStores>>
           ELSE /\ access_token' = r.data
                /\ writes' = [writes EXCEPT ![t] = @ + 1]
                /\ lastStored' = r.data
                /\ implicitStores' =
                     IF op[t] # "authenticate" /\ ~Falsy(r.data)
                     THEN implicitStores + 1 ELSE implicitStores
                /\ pc' = [pc EXCEPT ![t] =
                       IF op[t] = "authenticate" THEN "auth_return"
                       ELSE "send"]
                /\ UNCHANGED result
    /\ UNCHANGED <<access_key_id, access_key_secret, op, seen, reqs,
                   ncalls, implicitAuths, explicitUsed, everCleared, overlap,
                   payloadVars>>

\* `return self.access_token` of an explicit authenticate().
AuthenticateReturn(t) ==
    /\ pc[t] = "auth_return"
    /\ pc' = [pc EXCEPT ![t] = "done"]
    /\ result' = [result EXCEPT ![t] = Returned(access_token)]
    /\ UNCHANGED <<clientVars, op, seen, reqs, resps, writes, histVars,
                   payloadVars>>

\* The operation builds its body and headers and posts its request.  The
\* body is followed for create_record; requests are told apart by their
\* procedure and headers.
SendRequest(t) ==
    /\ pc[t] = "send"
    /\ pc' = [pc EXCEPT ![t] = "op_wait"]
    /\ reqs' = [reqs EXCEPT ![t] = Append(@, OpRequest(t))]
    /\ payload' = IF op[t] = "create_record" THEN BuildPayload(args)
                  ELSE payload
    /\ UNCHANGED <<clientVars, op, seen, resps, writes, result, histVars,
                   given, args>>

\* The operation's response: raise_for_status, the error wrapping of
\* create/schedule, the unwrapping of result.data.
OpResponse(t) ==
    /\ pc[t] = "op_wait"
    /\ \E r \in OpResponses :
        /\ resps' = [resps EXCEPT ![t] = Append(@, r)]
        /\ result' = [result EXCEPT ![t] =
               IF RaiseForStatus(r.status)
               THEN IF WrapsError(op[t])
                    THEN Raised("HTTPError", ErrorPrefix(op[t]))
                    ELSE Raised("HTTPError", TransportMessage)
               ELSE IF ~r.json
               THEN Raised("DecodeError", "no result.data")
               ELSE Returned(r.data)]
    /\ pc' = [pc EXCEPT ![t] = "done"]
    /\ UNCHANGED <<clientVars, op, seen, reqs, writes, histVars, payloadVars>>

\* Between calls the caller resets the public attribute:
\*     client.access_token = None
\* The outcomes of the calls that had finished are dropped with it.
ClearToken ==
    /\ \A t \in Threads : Idle(t)
    /\ access_token # None
    /\ access_token' = None
    /\ everCleared' = TRUE
    /\ pc' = [t \in Threads |-> "idle"]
    /\ reqs' = [t \in Threads |-> << >>]
    /\ resps' = [t \in Threads |-> << >>]
    /\ writes' = [t \in Threads |-> 0]
    /\ result' = [t \in Threads |-> NoResult]
    /\ UNCHANGED <<access_key_id, access_key_secret, op, seen, ncalls,
                   implicitAuths, implicitStores, explicitUsed, lastStored,
                   overlap, payloadVars>>

\* One step of thread t.
Step(t) ==
    \/ authenticate(t)
    \/ create_record(t)
    \/ schedule_workflow_run(t)
    \/ get_workflow_run(t)
    \/ list_workflow_runs(t)
    \/ AuthenticateResponse(t)
    \/ AuthenticateReturn(t)
    \/ SendRequest(t)
    \/ OpResponse(t)

\* A client used by one thread, one call after the other.
Next ==
    \/ Step(1)
    \/ ClearToken

\* The same client shared by two threads, with no lock around it.
ConcNext ==
    \/ \E t \in Threads : Step(t)
    \/ ClearToken

Spec == Init /\ [][Next]_vars

ConcSpec == Init /\ [][ConcNext]_vars


\* ------------------------------------------- create_record's request body
\* Every way of passing the optional and the defaulted arguments.
InitPayload ==
    /\ InitClient
    /\ access_key_id = "key-id"
    /\ access_key_secret = "key-secret"
    /\ \E mode \in PassModes :
        /\ given = {p \in DOMAIN mode : mode[p] # "unset"}
        /\ args = BindArgs(mode)
    /\ payload = NoPayload

\* The body-building block of create_record applied to the arguments.
BuildRecordPayload ==
    /\ DOMAIN payload = {}
    /\ payload' = BuildPayload(args)
    /\ UNCHANGED <<clientVars, callVars, histVars, given, args>>

PayloadSpec == InitPayload /\ [][BuildRecordPayload]_vars

\* ------------------------------------------------- vocabulary of the claims
Done(t) == pc[t] = "done"

InCall(t) == pc[t] # "idle"

AuthReqCount(t) ==
    Cardinality({i \in DOMAIN reqs[t] : reqs[t][i].proc = AuthProcedure})

OpReqCount(t) ==
    Cardinality({i \in DOMAIN reqs[t] : reqs[t][i].proc = Procedure(op[t])
                                        /\ op[t] # "authenticate"})

ValidCredentials ==
    access_key_id = "key-id" /\ access_key_secret = "key-secret"

\* The call of t posted a token exchange and got an answer to it.
AuthAnswered(t) ==
    /\ InCall(t)
    /\ Len(reqs[t]) >= 1
    /\ reqs[t][1].proc = AuthProcedure
    /\ Len(resps[t]) >= 1

\* The call of t posted its own request and got an answer to it.
OpAnswered(t) ==
    /\ Done(t)
    /\ op[t] # "authenticate"
    /\ Len(reqs[t]) >= 1
    /\ reqs[t][Len(reqs[t])].proc = Procedure(op[t])
    /\ Len(resps[t]) = Len(reqs[t])

OpAnswer(t) == resps[t][Len(resps[t])]


\* ------------------------------------------------------------------ claims
\* C1: an authenticated operation entered with no token and valid
\* credentials posts exactly one token exchange during the call, and posts
\* it before the operation's own request.
C1_OneAuthBeforeRequest ==
    \A t \in Threads :
        (InCall(t) /\ op[t] \in AuthenticatedOps /\ seen[t] = None
                   /\ ValidCredentials)
        => /\ AuthReqCount(t) = 1
           /\ reqs[t][1].proc = AuthProcedure
           /\ \A i \in DOMAIN reqs[t] :
                  reqs[t][i].proc = Procedure(op[t]) => i > 1

C1_Witness ==
    /\ Done(1) /\ op[1] = "get_workflow_run" /\ seen[1] = None
    /\ ValidCredentials
    /\ Len(reqs[1]) = 2
    /\ reqs[1][2].proc = "getWorkflowRun"
    /\ result[1] = Returned("payload")

\* C2 as stated: a call entered with a token stored by an earlier successful
\* authentication, whatever its value, posts no token exchange.
C2_AnyStoredToken ==
    \A t \in Threads :
        (InCall(t) /\ op[t] \in AuthenticatedOps /\ seen[t] # None)
        => AuthReqCount(t) = 0

\* C2 amended: a call entered with a non-empty token posts no token
\* exchange, only the operation's own request.
C2_NoReauthWithToken ==
    \A t \in Threads :
        (InCall(t) /\ op[t] \in AuthenticatedOps /\ seen[t] \notin {None, ""})
        => /\ AuthReqCount(t) = 0
           /\ Len(reqs[t]) <= 1
           /\ Done(t) => /\ Len(reqs[t]) = 1
                         /\ reqs[t][1].proc = Procedure(op[t])

C2_Witness ==
    /\ Done(1) /\ op[1] = "list_workflow_runs" /\ seen[1] = "t1"
    /\ ncalls = 2 /\ implicitAuths = 1
    /\ Len(reqs[1]) = 1

\* C3 as stated: with no explicit authenticate() and no clearing of the
\* token, at most one lazy token exchange is ever posted.
C3_AtMostOneImplicitRequest ==
    (~explicitUsed /\ ~everCleared) => implicitAuths <= 1

\* C3 amended: with no explicit authenticate() and no clearing of the token,
\* at most one lazy authentication stores a non-empty token, and once it has,
\* the token stays and no lazy token exchange is in flight any more.
C3_AtMostOneImplicitStore ==
    (~explicitUsed /\ ~everCleared)
    => /\ implicitStores <= 1
       /\ implicitStores = 1
            => /\ access_token \notin {None, ""}
               /\ \A t \in Threads : pc[t] # "auth_wait"

C3_Witness ==
    /\ ~explicitUsed /\ ~everCleared
    /\ ncalls = 2 /\ Done(1)
    /\ implicitStores = 1 /\ implicitAuths = 1
    /\ Len(reqs[1]) = 1

\* C4 as stated: every finished call made exactly one round trip.
C4_ExactlyOneRoundTrip ==
    \A t \in Threads : Done(t) => Len(reqs[t]) = 1

\* C4 amended: a finished call has posted its own request at most once and a
\* token exchange at most once, each answered once: one round trip when a
\* non-empty token was held, and for authenticate() with credentials; on the
\* lazy path two when the token exchange succeeds, one when it fails, none
\* when the credentials are missing.
C4_RoundTripsPerCall ==
    \A t \in Threads :
        Done(t)
        => /\ AuthReqCount(t) <= 1
           /\ OpReqCount(t) <= 1
           /\ Len(reqs[t]) = AuthReqCount(t) + OpReqCount(t)
           /\ Len(resps[t]) = Len(reqs[t])
           /\ Len(reqs[t]) =
                IF op[t] = "authenticate"
                THEN (IF ValidCredentials THEN 1 ELSE 0)
                ELSE IF seen[t] \notin {None, ""} THEN 1
                ELSE IF ~ValidCredentials THEN 0
                ELSE IF resps[t][1].status < 400 /\ resps[t][1].json THEN 2
                ELSE 1

C4_Witness ==
    /\ Done(1) /\ op[1] = "create_record"
    /\ Len(reqs[1]) = 2 /\ Len(resps[1]) = 2
    /\ result[1] = Returned("payload")

\* C5: authenticate() reached with a missing or empty credential, called
\* directly or lazily, raises ValueError, posts nothing and leaves the
\* stored token as it was.
C5_MissingCredentials ==
    \A t \in Threads :
        (/\ InCall(t)
         /\ access_key_id \in {None, ""} \/ access_key_secret \in {None, ""}
         /\ op[t] = "authenticate" \/ seen[t] \in {None, ""})
        => /\ Done(t)
           /\ result[t].kind = "ValueError"
           /\ reqs[t] = << >>
           /\ resps[t] = << >>
           /\ writes[t] = 0
           /\ access_token = seen[t]

C5_Witness ==
    /\ Done(1) /\ op[1] = "schedule_workflow_run"
    /\ access_key_id = "key-id" /\ access_key_secret = ""
    /\ result[1].kind = "ValueError"
    /\ reqs[1] = << >>

\* C6: when the token exchange is answered with a status below 400 and an
\* envelope holding accessToken = tok, the stored token is tok, it was
\* assigned once in the call, and an explicit authenticate() returns tok.
C6_TokenStored ==
    \A t \in Threads :
        (AuthAnswered(t) /\ resps[t][1].status < 400 /\ resps[t][1].json)
        => /\ access_token = resps[t][1].data
           /\ writes[t] = 1
           /\ lastStored = resps[t][1].data
           /\ (Done(t) /\ op[t] = "authenticate")
                => result[t] = Returned(resps[t][1].data)

C6_Witness ==
    /\ Done(1) /\ op[1] = "authenticate"
    /\ seen[1] = "t1"
    /\ resps[1][1].data = "t2"
    /\ access_token = "t2"
    /\ result[1] = Returned("t2")

\* C7: the body of create_record holds the five fixed keys with the bound
\* values (type GENERIC and status OPEN when not passed), holds an optional
\* key only if the caller passed that argument, never holds None, and holds
\* no other key.
C7_SparsePayload ==
    DOMAIN payload # {}
    => /\ {"title", "type", "sourceSystem", "sourceRecordId", "status"}
            \subseteq DOMAIN payload
       /\ payload["title"] = args["title"]
       /\ payload["type"] = args["record_type"]
       /\ payload["sourceSystem"] = args["source_system"]
       /\ payload["sourceRecordId"] = args["source_record_id"]
       /\ payload["status"] = args["status"]
       /\ "record_type" \notin given => payload["type"] = "GENERIC"
       /\ "status" \notin given => payload["status"] = "OPEN"
       /\ \A p \in OptionalParams :
            /\ WireName(p) \in DOMAIN payload
                 => p \in given /\ payload[WireName(p)] = args[p]
            /\ p \notin given => WireName(p) \notin DOMAIN payload
       /\ \A k \in DOMAIN payload : payload[k] # None
       /\ DOMAIN payload \subseteq
            {"title", "type", "sourceSystem", "sourceRecordId", "status",
             "priority", "risk", "contactId", "dueAt", "metadata", "rawData",
             "workflowIds", "allowOverwrite", "overwriteFields"}

C7_Witness ==
    /\ given = {"priority", "due_at", "risk"}
    /\ args["risk"] = ""
    /\ DOMAIN payload = {"title", "type", "sourceSystem", "sourceRecordId",
                         "status", "priority", "dueAt"}
    /\ payload["priority"] = "HIGH"
    /\ payload["dueAt"] = "2026-02-15T00:00:00Z"

\* C8 as stated: in get_workflow_run and list_workflow_runs every non-2xx
\* answer raises the unwrapped transport error, and a payload is returned
\* only for a 2xx answer.
C8_Non2xxRaises ==
    \A t \in Threads :
        (OpAnswered(t) /\ op[t] \in {"get_workflow_run", "list_workflow_runs"})
        => /\ (OpAnswer(t).status < 200 \/ OpAnswer(t).status > 299)
                => result[t] = Raised("HTTPError", TransportMessage)
           /\ result[t].kind = "return"
                => (200 <= OpAnswer(t).status /\ OpAnswer(t).status <= 299)

\* C8 amended: in get_workflow_run and list_workflow_runs an answer with a
\* status from 400 to 599 raises the unwrapped transport error and returns
\* nothing; result.data is returned only for a status outside 400..599 (2xx,
\* but also 1xx, 3xx and codes past 599) with a well-formed envelope.
C8_ErrorStatusRaises ==
    \A t \in Threads :
        (OpAnswered(t) /\ op[t] \in {"get_workflow_run", "list_workflow_runs"})
        => /\ (400 <= OpAnswer(t).status /\ OpAnswer(t).status <= 599)
                => result[t] = Raised("HTTPError", TransportMessage)
           /\ result[t].kind = "return"
                => /\ OpAnswer(t).status < 400 \/ OpAnswer(t).status > 599
                   /\ OpAnswer(t).json
                   /\ result[t].val = OpAnswer(t).data

C8_Witness ==
    /\ OpAnswered(1) /\ op[1] = "get_workflow_run"
    /\ OpAnswer(1).status = 401
    /\ result[1] = Raised("HTTPError", TransportMessage)


\* The lazy authentication of the call of t has failed: the credentials are
\* missing, or the token exchange was answered with a status of 400 or more.
LazyAuthFailed(t) ==
    /\ InCall(t)
    /\ op[t] \in AuthenticatedOps
    /\ seen[t] \in {None, ""}
    /\ \/ access_key_id \in {None, ""}
       \/ access_key_secret \in {None, ""}
       \/ AuthAnswered(t) /\ resps[t][1].status >= 400

\* C10: when the lazy authentication of an operation fails, the call ends
\* with that error, the operation's request is never posted and the stored
\* token is what it was on entry; and every operation request posted carries
\* the token stored by the most recent successful authentication.
C10_FailedAuthStopsCall ==
    \A t \in Threads :
        /\ LazyAuthFailed(t)
             => /\ Done(t)
                /\ result[t] \in
                     {Raised("ValueError",
                             "access_key_id and access_key_secret are required"),
                      Raised("HTTPError", "Authentication failed")}
                /\ OpReqCount(t) = 0
                /\ writes[t] = 0
                /\ access_token = seen[t]
        /\ \A i \in DOMAIN reqs[t] :
                reqs[t][i].proc # AuthProcedure
                => /\ lastStored # None
                   /\ reqs[t][i].authorization = "Bearer " \o lastStored
                   /\ reqs[t][i].key_id = access_key_id

C10_Witness ==
    /\ Done(1) /\ op[1] = "create_record" /\ seen[1] = None
    /\ Len(resps[1]) = 1 /\ resps[1][1].status = 401
    /\ result[1] = Raised("HTTPError", "Authentication failed")
    /\ Len(reqs[1]) = 1
    /\ access_token = None

\* The first two calls on a fresh client, one per thread, both authenticated
\* operations, both finished, with every token exchange answered by a
\* status below 400 and a well-formed envelope.
TwoFirstCalls ==
    /\ ncalls = 2
    /\ ValidCredentials
    /\ ~everCleared
    /\ \A t \in Threads :
        /\ Done(t)
        /\ op[t] \in AuthenticatedOps
        /\ AuthReqCount(t) = 1
             => /\ Len(resps[t]) >= 1
                /\ resps[t][1].status < 400
                /\ resps[t][1].json

TotalAuthRequests == AuthReqCount(1) + AuthReqCount(2)

\* A token exchange of one of the two calls stored the empty string.
EmptyTokenStored ==
    \E t \in Threads : AuthReqCount(t) = 1 /\ resps[t][1].data = ""

\* C9 as stated (its sequential half): two calls run one after the other
\* with successful authentication post exactly one token exchange.
C9_SequentialOneAuth ==
    (TwoFirstCalls /\ ~overlap) => TotalAuthRequests = 1

\* C9 amended: two calls on a fresh client post exactly one token exchange
\* when they run one after the other and the exchange stores a non-empty
\* token; a second exchange needs the calls to overlap (both read the token
\* before either stored it) or an empty token to have been stored.
C9_RedundantAuthOnlyByRace ==
    TwoFirstCalls
    => /\ TotalAuthRequests \in {1, 2}
       /\ (~overlap /\ ~EmptyTokenStored) => TotalAuthRequests = 1
       /\ (TotalAuthRequests = 2 /\ ~EmptyTokenStored)
            => overlap /\ seen[1] = None /\ seen[2] = None

\* Both calls saw no token and both posted a token exchange.
C9_Witness ==
    /\ TwoFirstCalls /\ overlap
    /\ seen[1] = None /\ seen[2] = None
    /\ AuthReqCount(1) = 1 /\ AuthReqCount(2) = 1
    /\ resps[1][1].data = "t1" /\ resps[2][1].data = "t2"
    /\ result[1] = Returned("payload") /\ result[2] = Returned("payload")

====
